---- MODULE Spec2Model ----
(***************************************************************************)
(* Model of src/main.py: a client that creates a Jupyter kernel, fetches a *)
(* notebook, sends one execute_request per code cell over a websocket,     *)
(* counts qualifying execute_reply messages until none is pending or the   *)
(* loop aborts, then closes the websocket and deletes the kernel.          *)
(*                                                                         *)
(* The program is single-threaded; pc is the position of the one thread.   *)
(* Everything the server, the network and the environment decide (the      *)
(* presence of JUPYTER_TOKEN, the parsed arguments, HTTP outcomes, the     *)
(* notebook's cells, the frames the websocket delivers) is drawn with \E   *)
(* from small sets.                                                        *)
(***************************************************************************)
EXTENDS Integers, Sequences, FiniteSets, TLC

VARIABLES
    pc,                      \* position of the thread in the module / main
    token_set,               \* "JUPYTER_TOKEN" in os.environ
    args,                    \* what the argument parser produced
    kernel,                  \* parsed body of the POST /api/kernels response
    file,                    \* parsed body of the GET /api/contents response
    code,                    \* list of the sources of the code cells
    ws,                      \* websocket: "none", "open" or "closed"
    sent,                    \* messages handed to ws.send, in order
    uuid_clock,              \* number of uuid.uuid1() calls made so far
    code_blocks_to_execute,  \* the pending count
    rsp,                     \* last decoded message
    msg_type,                \* rsp["msg_type"] of the last decoded message
    bound,                   \* names of main's locals that are bound
    kernel_on_server,        \* the server holds a kernel created by this run
    exc,                     \* exception caught by the loop's except clause
    trace,                   \* history: network and channel calls, in order
    ok_replies,              \* history: completion replies ws.recv() delivered
    invocations,             \* argument parsing study: see ArgsSpec
    outcome                  \* how the process ended ("" while running)

vars == << pc, token_set, args, kernel, file, code, ws, sent, uuid_clock,
           code_blocks_to_execute, rsp, msg_type, bound, kernel_on_server,
           exc, trace, ok_replies, invocations, outcome >>

(***************************************************************************)
(* Bounds of the model.                                                    *)
(***************************************************************************)
MaxCells == 3       \* cells in a notebook
MaxRecv == 3        \* ws.recv() calls in one run
MaxArgs == 3        \* arguments of an invocation (ArgsSpec)

(***************************************************************************)
(* Values.                                                                 *)
(***************************************************************************)
\* Python's None, for the string-valued arguments and dict.get defaults.
None == "None"

\* A dict with no keys.
EmptyDict == [k \in {} |-> TRUE]

\* The value of a local that is not bound yet.
Unbound == [unbound |-> TRUE]

\* len(x) of a source: a source is a string or a list of lines, modelled as
\* a sequence of its items.
PyLen(x) == Len(x)

\* d.get(k, default)
Get(d, k, default) == IF k \in DOMAIN d THEN d[k] ELSE default

\* Number of occurrences of an event in a history.
Count(s, e) == Cardinality({i \in 1..Len(s) : s[i] = e})

(***************************************************************************)
(* Notebook documents the server can return.                               *)
(***************************************************************************)
\* The cells the i-th cell of a notebook is drawn from: a code cell, a code
\* cell with an empty source, a markdown cell.  The non-empty sources of a
\* notebook differ from cell to cell.
CellsAt(i) == { [cell_type |-> "code", source |-> <<i>>],
                [cell_type |-> "code", source |-> <<>>],
                [cell_type |-> "markdown", source |-> <<i>>] }

CellLists ==
    UNION { { cs \in [1..n -> UNION {CellsAt(i) : i \in 1..n}] :
                \A i \in 1..n : cs[i] \in CellsAt(i) } : n \in 0..MaxCells }

\* A contents response with a notebook, and one without "content"
\* (for example the JSON error body of a 404).
NotebookModels == { [content |-> [cells |-> cs]] : cs \in CellLists }

ErrorBody == [message |-> "error"]

\* The condition as it would be without the length test.
IsCodeCell_AnyLength(c) == c["cell_type"] = "code"

\* The condition of the comprehension that selects the code cells.
IsCodeCell(c) == PyLen(c["source"]) > 0 /\ c["cell_type"] = "code"

\* [c["source"] for c in cells if ...], from the i-th cell on.
RECURSIVE SourcesFrom(_, _)
SourcesFrom(cells, i) ==
    IF i > Len(cells) THEN <<>>
    ELSE (IF IsCodeCell(cells[i]) THEN << cells[i]["source"] >> ELSE <<>>)
         \o SourcesFrom(cells, i + 1)

ExtractCode(doc) == SourcesFrom(doc["content"]["cells"], 1)

(***************************************************************************)
(* Execution requests.  uuid.uuid1() yields a value that differs from      *)
(* every value it yielded before in the process; the n-th call is modelled *)
(* as yielding n.  The header's timestamp ("data") is left out.            *)
(***************************************************************************)
Uuid1(clock) == clock + 1

Header(clock) ==
    [ msg_id |-> Uuid1(clock),
      username |-> "test",
      session |-> Uuid1(clock + 1),
      msg_type |-> "execute_request",
      version |-> "5.0" ]

send_execute_request(c, clock) ==
    [ header |-> Header(clock),
      parent_header |-> Header(clock),
      metadata |-> EmptyDict,
      content |-> [code |-> c, silent |-> FALSE] ]

(***************************************************************************)
(* What the environment can hand to the program.                           *)
(***************************************************************************)
\* Results of parser.parse_args: each positional is given (or defaulted
\* from the environment) or None.
ParsedArgs ==
    [ jupyter_server : {None, "host:8888"},
      jupyter_notebook : {None, "/nb.ipynb"},
      use_https : BOOLEAN,
      verbose : BOOLEAN ]

\* Decoded JSON objects the websocket can deliver.
Replies ==
    { \* execute_reply
      [msg_type |-> "execute_reply", content |-> [status |-> "ok"],
       metadata |-> [status |-> "ok", dependencies_met |-> TRUE]],
      [msg_type |-> "execute_reply",
       metadata |-> [status |-> "ok", dependencies_met |-> TRUE]],
      [msg_type |-> "execute_reply", content |-> [status |-> "ok"],
       parent_header |-> [msg_id |-> 3],
       metadata |-> [status |-> "ok", dependencies_met |-> TRUE]],
      [msg_type |-> "execute_reply", content |-> [status |-> "ok"],
       metadata |-> [status |-> "ok", dependencies_met |-> FALSE]],
      [msg_type |-> "execute_reply", content |-> [status |-> "ok"],
       metadata |-> [status |-> "ok"]],
      [msg_type |-> "execute_reply", content |-> [status |-> "error"],
       metadata |-> [status |-> "error", dependencies_met |-> TRUE]],
      [msg_type |-> "execute_reply", content |-> [status |-> "ok"],
       metadata |-> EmptyDict],
      [msg_type |-> "execute_reply", content |-> [status |-> "ok"]],
      \* informational messages
      [msg_type |-> "execute_result", content |-> [data |-> "2"],
       metadata |-> EmptyDict],
      [msg_type |-> "execute_result", metadata |-> EmptyDict],
      [msg_type |-> "status", content |-> [execution_state |-> "idle"],
       metadata |-> EmptyDict],
      [msg_type |-> "stream", content |-> [text |-> "out"]],
      \* error messages
      [msg_type |-> "error", metadata |-> EmptyDict,
       content |-> [traceback |-> << "NameError: x undefined" >>]],
      [msg_type |-> "error", content |-> [traceback |-> << >>]],
      [msg_type |-> "error", content |-> [ename |-> "NameError"]],
      [msg_type |-> "error", metadata |-> EmptyDict],
      \* an object without msg_type
      [content |-> [status |-> "ok"], metadata |-> EmptyDict] }

\* What rsp holds when the frame decodes to JSON that is not an object.
NonObject == [not_an_object |-> TRUE]

\* Ways ws.recv() / json.loads fail to produce a JSON object:
\* ws.recv() raises, the frame is not JSON, the JSON is not an object.
RecvFailures == { "WebSocketException", "JSONDecodeError", "TypeError" }

(***************************************************************************)
(* The reply handling of the receive loop, as functions of the message.    *)
(***************************************************************************)
\* A reply that reports the successful completion of a cell, as the
\* messaging protocol defines it (used for the history ok_replies and in the
\* properties).
Qualifies(r) ==
    /\ "msg_type" \in DOMAIN r
    /\ r.msg_type = "execute_reply"
    /\ "metadata" \in DOMAIN r
    /\ "status" \in DOMAIN r.metadata
    /\ r.metadata.status = "ok"
    /\ "dependencies_met" \in DOMAIN r.metadata
    /\ r.metadata.dependencies_met = TRUE

\* The try block as it would be without the raise of line 132.
TryBlockRaises_ErrorNotRaised(r) ==
    IF "msg_type" \notin DOMAIN r THEN "KeyError"
    ELSE IF r["msg_type"] # "error" THEN ""
    ELSE IF "content" \notin DOMAIN r THEN "KeyError"
    ELSE ""

\* Lines 129-132: the exception the rest of the try block raises for a
\* decoded object r ("" when it raises none).
TryBlockRaises(r) ==
    IF "msg_type" \notin DOMAIN r THEN "KeyError"
    ELSE IF r["msg_type"] # "error" THEN ""
    ELSE IF "content" \notin DOMAIN r THEN "KeyError"
    ELSE IF "traceback" \notin DOMAIN r["content"] THEN "KeyError"
    ELSE IF Len(r["content"]["traceback"]) = 0 THEN "IndexError"
    ELSE "Exception"

\* Lines 137-138: pprint(rsp["content"]) raises KeyError.
EchoRaises(r, mt, verbose) ==
    (mt = "execute_result" \/ verbose) /\ "content" \notin DOMAIN r

\* Lines 140-144, evaluated left to right: rsp["metadata"] raises KeyError.
CountRaises(r, mt) ==
    mt = "execute_reply" /\ "metadata" \notin DOMAIN r

\* The condition as it would be without the dependencies_met test.
IsCompletion_IgnoresDependencies(r, mt) ==
    /\ mt = "execute_reply"
    /\ Get(r["metadata"], "status", None) = "ok"

\* Lines 140-144: the condition under which the count is decremented.
IsCompletion(r, mt) ==
    /\ mt = "execute_reply"
    /\ Get(r["metadata"], "status", None) = "ok"
    /\ Get(r["metadata"], "dependencies_met", FALSE)

(***************************************************************************)
(* The program.                                                            *)
(***************************************************************************)
Init ==
    /\ pc = "import"
    /\ token_set \in BOOLEAN
    /\ args = Unbound
    /\ kernel = Unbound
    /\ file = Unbound
    /\ code = <<>>
    /\ ws = "none"
    /\ sent = <<>>
    /\ uuid_clock = 0
    /\ code_blocks_to_execute = 0
    /\ rsp = Unbound
    /\ msg_type = None
    /\ bound = {}
    /\ kernel_on_server = FALSE
    /\ exc = ""
    /\ trace = <<>>
    /\ ok_replies = 0
    /\ invocations = Unbound
    /\ outcome = ""

\* An exception no handler catches: it propagates out of main and the
\* process ends with a traceback.
Uncaught ==
    /\ pc' = "done"
    /\ outcome' = "exception"

\* The module load as it would be without the check of lines 17-18.
ModuleImport_NoCheck ==
    /\ pc = "import"
    /\ pc' = "parse_args"
    /\ UNCHANGED << invocations, ok_replies >>
    /\ UNCHANGED << token_set, args, kernel, file, code, ws, sent, uuid_clock,
                    code_blocks_to_execute, rsp, msg_type, bound,
                    kernel_on_server, exc, trace, outcome >>

\* Lines 17-18: the check made when the module is loaded.
ModuleImport ==
    /\ pc = "import"
    /\ IF ~token_set
       THEN pc' = "done" /\ outcome' = "config_error"
       ELSE pc' = "parse_args" /\ outcome' = outcome
    /\ UNCHANGED << invocations, ok_replies >>
    /\ UNCHANGED << token_set, args, kernel, file, code, ws, sent, uuid_clock,
                    code_blocks_to_execute, rsp, msg_type, bound,
                    kernel_on_server, exc, trace >>

\* parse_args as it would be without the check of lines 59-61.
parse_args_NoCheck ==
    /\ pc = "parse_args"
    /\ \E a \in ParsedArgs :
          /\ pc' = "headers"
          /\ args' = a
          /\ bound' = bound \cup {"args"}
          /\ outcome' = outcome
    /\ UNCHANGED << invocations, ok_replies >>
    /\ UNCHANGED << token_set, kernel, file, code, ws, sent, uuid_clock,
                    code_blocks_to_execute, rsp, msg_type, kernel_on_server,
                    exc, trace >>

\* Lines 21-63 and 85: parse_args, which exits with status 1 after the help
\* text when an address or a path is missing.
parse_args ==
    /\ pc = "parse_args"
    /\ \E a \in ParsedArgs :
          IF a.jupyter_server = None \/ a.jupyter_notebook = None
          THEN /\ pc' = "done"
               /\ outcome' = "exit_1"
               /\ UNCHANGED << args, bound >>
          ELSE /\ pc' = "headers"
               /\ args' = a
               /\ bound' = bound \cup {"args"}
               /\ outcome' = outcome
    /\ UNCHANGED << invocations, ok_replies >>
    /\ UNCHANGED << token_set, kernel, file, code, ws, sent, uuid_clock,
                    code_blocks_to_execute, rsp, msg_type, kernel_on_server,
                    exc, trace >>

\* Lines 88-93: the locals of main; os.environ['JUPYTER_TOKEN'] raises
\* KeyError when the variable is not set.
BuildHeaders ==
    /\ pc = "headers"
    /\ IF ~token_set
       THEN Uncaught
       ELSE pc' = "create_kernel" /\ outcome' = outcome
    /\ UNCHANGED << invocations, ok_replies >>
    /\ UNCHANGED << token_set, args, kernel, file, code, ws, sent, uuid_clock,
                    code_blocks_to_execute, rsp, msg_type, bound,
                    kernel_on_server, exc, trace >>

\* Lines 95-100: POST /api/kernels.  The server creates the kernel and
\* answers with its model, or answers with a JSON body that has no "id",
\* or the call or the decoding of its body raises.
CreateKernel ==
    /\ pc = "create_kernel"
    /\ trace' = Append(trace, "POST")
    /\ \/ /\ kernel' = [id |-> "k1"]
          /\ kernel_on_server' = TRUE
          /\ bound' = bound \cup {"kernel"}
          /\ pc' = "fetch_notebook"
          /\ outcome' = outcome
       \/ /\ kernel' = ErrorBody
          /\ bound' = bound \cup {"kernel"}
          /\ pc' = "fetch_notebook"
          /\ UNCHANGED << kernel_on_server, outcome >>
       \/ /\ Uncaught
          /\ UNCHANGED << kernel, kernel_on_server, bound >>
    /\ UNCHANGED << invocations, ok_replies >>
    /\ UNCHANGED << token_set, args, file, code, ws, sent, uuid_clock,
                    code_blocks_to_execute, rsp, msg_type, exc >>

\* The fetch as it would be if a failed call were made again.
FetchNotebook_Retry ==
    /\ pc = "fetch_notebook"
    /\ trace' = Append(trace, "GET")
    /\ \/ /\ file' \in NotebookModels \cup {ErrorBody}
          /\ bound' = bound \cup {"file"}
          /\ pc' = "extract"
          /\ outcome' = outcome
       \/ /\ Len(trace) < 3
          /\ UNCHANGED << pc, outcome, file, bound >>
    /\ UNCHANGED << invocations, ok_replies >>
    /\ UNCHANGED << token_set, args, kernel, code, ws, sent, uuid_clock,
                    code_blocks_to_execute, rsp, msg_type, kernel_on_server,
                    exc >>

\* Lines 103-106: GET /api/contents{notebook_path}.
FetchNotebook ==
    /\ pc = "fetch_notebook"
    /\ trace' = Append(trace, "GET")
    /\ \/ /\ file' \in NotebookModels \cup {ErrorBody}
          /\ bound' = bound \cup {"file"}
          /\ pc' = "extract"
          /\ outcome' = outcome
       \/ /\ Uncaught
          /\ UNCHANGED << file, bound >>
    /\ UNCHANGED << invocations, ok_replies >>
    /\ UNCHANGED << token_set, args, kernel, code, ws, sent, uuid_clock,
                    code_blocks_to_execute, rsp, msg_type, kernel_on_server,
                    exc >>

\* Lines 108-112: the list of code cell sources; file["content"] raises
\* KeyError when the body has no "content".
Extract ==
    /\ pc = "extract"
    /\ IF "content" \notin DOMAIN file
       THEN /\ Uncaught
            /\ UNCHANGED << code, bound >>
       ELSE /\ code' = ExtractCode(file)
            /\ bound' = bound \cup {"code"}
            /\ pc' = "open_channel"
            /\ outcome' = outcome
    /\ UNCHANGED << invocations, ok_replies >>
    /\ UNCHANGED << token_set, args, kernel, file, ws, sent, uuid_clock,
                    code_blocks_to_execute, rsp, msg_type, kernel_on_server,
                    exc, trace >>

\* Lines 115-118: create_connection.  kernel['id'] raises KeyError before
\* the connection is attempted when the kernel body has no "id".
OpenChannel ==
    /\ pc = "open_channel"
    /\ IF "id" \notin DOMAIN kernel
       THEN /\ Uncaught
            /\ UNCHANGED << ws, bound, trace >>
       ELSE /\ trace' = Append(trace, "connect")
            /\ \/ /\ ws' = "open"
                  /\ bound' = bound \cup {"ws"}
                  /\ pc' = "send"
                  /\ outcome' = outcome
               \/ /\ Uncaught
                  /\ UNCHANGED << ws, bound >>
    /\ UNCHANGED << invocations, ok_replies >>
    /\ UNCHANGED << token_set, args, kernel, file, code, sent, uuid_clock,
                    code_blocks_to_execute, rsp, msg_type, kernel_on_server,
                    exc >>

\* Send as it would be if the for loop took the sources last first.
Send_LastFirst ==
    /\ pc = "send"
    /\ Len(sent) < Len(code)
    /\ uuid_clock' = uuid_clock + 2
    /\ trace' = Append(trace, "send")
    /\ \/ /\ sent' = Append(sent, send_execute_request(
                                     code[Len(code) - Len(sent)], uuid_clock))
          /\ UNCHANGED << pc, outcome >>
       \/ /\ Uncaught
          /\ UNCHANGED sent
    /\ UNCHANGED << invocations, ok_replies >>
    /\ UNCHANGED << token_set, args, kernel, file, code, ws,
                    code_blocks_to_execute, rsp, msg_type, bound,
                    kernel_on_server, exc >>

\* Lines 121-122: one iteration of the for loop: build the request for the
\* next source and hand it to ws.send, which may raise.
Send ==
    /\ pc = "send"
    /\ Len(sent) < Len(code)
    /\ uuid_clock' = uuid_clock + 2
    /\ trace' = Append(trace, "send")
    /\ \/ /\ sent' = Append(sent, send_execute_request(code[Len(sent) + 1],
                                                         uuid_clock))
          /\ UNCHANGED << pc, outcome >>
       \/ /\ Uncaught
          /\ UNCHANGED sent
    /\ UNCHANGED << invocations, ok_replies >>
    /\ UNCHANGED << token_set, args, kernel, file, code, ws,
                    code_blocks_to_execute, rsp, msg_type, bound,
                    kernel_on_server, exc >>

\* Line 124 as it would be with a count one too high.
SetCount_OneTooMany ==
    /\ pc = "send"
    /\ Len(sent) = Len(code)
    /\ code_blocks_to_execute' = Len(code) + 1
    /\ bound' = bound \cup {"code_blocks_to_execute"}
    /\ pc' = "loop"
    /\ UNCHANGED << invocations, ok_replies >>
    /\ UNCHANGED << token_set, args, kernel, file, code, ws, sent, uuid_clock,
                    rsp, msg_type, kernel_on_server, exc, trace, outcome >>

\* Line 124, reached when the for loop has run out of sources.
SetCount ==
    /\ pc = "send"
    /\ Len(sent) = Len(code)
    /\ code_blocks_to_execute' = Len(code)
    /\ bound' = bound \cup {"code_blocks_to_execute"}
    /\ pc' = "loop"
    /\ UNCHANGED << invocations, ok_replies >>
    /\ UNCHANGED << token_set, args, kernel, file, code, ws, sent, uuid_clock,
                    rsp, msg_type, kernel_on_server, exc, trace, outcome >>

\* Line 126: the while condition is false; control leaves the loop.
LoopExit ==
    /\ pc = "loop"
    /\ ~(code_blocks_to_execute > 0)
    /\ pc' = "close"
    /\ UNCHANGED << invocations, ok_replies >>
    /\ UNCHANGED << token_set, args, kernel, file, code, ws, sent, uuid_clock,
                    code_blocks_to_execute, rsp, msg_type, bound,
                    kernel_on_server, exc, trace, outcome >>

\* Recv as it would be if the except clause went on to the next iteration
\* (continue) after a failed receive instead of leaving the loop.
Recv_RetryOnFailure ==
    /\ pc = "loop"
    /\ code_blocks_to_execute > 0
    /\ Count(trace, "recv") < MaxRecv
    /\ trace' = Append(trace, "recv")
    /\ \/ \E f \in RecvFailures :
            /\ exc' = f
            /\ pc' = "loop"
            /\ IF f = "TypeError"
               THEN rsp' = NonObject /\ bound' = bound \cup {"rsp"}
               ELSE UNCHANGED << rsp, bound >>
            /\ UNCHANGED << msg_type, ok_replies >>
       \/ \E r \in Replies :
            /\ rsp' = r
            /\ ok_replies' = IF Qualifies(r) THEN ok_replies + 1
                                              ELSE ok_replies
            /\ IF "msg_type" \in DOMAIN r
               THEN msg_type' = r["msg_type"]
                    /\ bound' = bound \cup {"rsp", "msg_type"}
               ELSE msg_type' = msg_type
                    /\ bound' = bound \cup {"rsp"}
            /\ IF TryBlockRaises(r) # ""
               THEN exc' = TryBlockRaises(r) /\ pc' = "close"
               ELSE exc' = exc /\ pc' = "handle"
    /\ UNCHANGED invocations
    /\ UNCHANGED << token_set, args, kernel, file, code, ws, sent, uuid_clock,
                    code_blocks_to_execute, kernel_on_server, outcome >>

\* Lines 126-135: the while condition is true; the try block receives and
\* decodes one frame.  Every exception raised in the block is caught by the
\* except clause, which breaks out of the loop.
Recv ==
    /\ pc = "loop"
    /\ code_blocks_to_execute > 0
    /\ Count(trace, "recv") < MaxRecv
    /\ trace' = Append(trace, "recv")
    /\ \/ \E f \in RecvFailures :
            /\ exc' = f
            /\ pc' = "close"
            /\ IF f = "TypeError"
               THEN rsp' = NonObject /\ bound' = bound \cup {"rsp"}
               ELSE UNCHANGED << rsp, bound >>
            /\ UNCHANGED << msg_type, ok_replies >>
       \/ \E r \in Replies :
            /\ rsp' = r
            /\ ok_replies' = IF Qualifies(r) THEN ok_replies + 1
                                              ELSE ok_replies
            /\ IF "msg_type" \in DOMAIN r
               THEN msg_type' = r["msg_type"]
                    /\ bound' = bound \cup {"rsp", "msg_type"}
               ELSE msg_type' = msg_type
                    /\ bound' = bound \cup {"rsp"}
            /\ IF TryBlockRaises(r) # ""
               THEN exc' = TryBlockRaises(r) /\ pc' = "close"
               ELSE exc' = exc /\ pc' = "handle"
    /\ UNCHANGED invocations
    /\ UNCHANGED << token_set, args, kernel, file, code, ws, sent, uuid_clock,
                    code_blocks_to_execute, kernel_on_server, outcome >>

\* Handle as it would be if a reply were counted only when it names the
\* request it answers.
Handle_MatchesRequest ==
    /\ pc = "handle"
    /\ IF EchoRaises(rsp, msg_type, args.verbose) \/ CountRaises(rsp, msg_type)
       THEN /\ Uncaught
            /\ UNCHANGED code_blocks_to_execute
       ELSE /\ code_blocks_to_execute' =
                    IF /\ IsCompletion(rsp, msg_type)
                       /\ "parent_header" \in DOMAIN rsp
                       /\ \E i \in 1..Len(sent) :
                             sent[i].header.msg_id = rsp.parent_header.msg_id
                    THEN code_blocks_to_execute - 1
                    ELSE code_blocks_to_execute
            /\ pc' = "loop"
            /\ outcome' = outcome
    /\ UNCHANGED << invocations, ok_replies >>
    /\ UNCHANGED << token_set, args, kernel, file, code, ws, sent, uuid_clock,
                    rsp, msg_type, bound, kernel_on_server, exc, trace >>

\* Lines 137-145: the rest of the loop body, outside the try block: echo
\* the content, then count the reply.  A KeyError raised here is not caught.
Handle ==
    /\ pc = "handle"
    /\ IF EchoRaises(rsp, msg_type, args.verbose) \/ CountRaises(rsp, msg_type)
       THEN /\ Uncaught
            /\ UNCHANGED code_blocks_to_execute
       ELSE /\ code_blocks_to_execute' =
                    IF IsCompletion(rsp, msg_type)
                    THEN code_blocks_to_execute - 1
                    ELSE code_blocks_to_execute
            /\ pc' = "loop"
            /\ outcome' = outcome
    /\ UNCHANGED << invocations, ok_replies >>
    /\ UNCHANGED << token_set, args, kernel, file, code, ws, sent, uuid_clock,
                    rsp, msg_type, bound, kernel_on_server, exc, trace >>

\* Close as it would be if the kernel were deleted before the channel is
\* closed.
Close_AfterDelete ==
    /\ pc = "close"
    /\ ws' = "closed"
    /\ trace' = trace \o << "DELETE", "close" >>
    /\ pc' = "done"
    /\ outcome' = "returned"
    /\ UNCHANGED << invocations, ok_replies >>
    /\ UNCHANGED << token_set, args, kernel, file, code, sent, uuid_clock,
                    code_blocks_to_execute, rsp, msg_type, bound,
                    kernel_on_server, exc >>

\* Lines 147-148: ws.close(), which ends the connection and is taken not to
\* raise.
Close ==
    /\ pc = "close"
    /\ ws' = "closed"
    /\ trace' = Append(trace, "close")
    /\ pc' = "delete"
    /\ UNCHANGED << invocations, ok_replies >>
    /\ UNCHANGED << token_set, args, kernel, file, code, sent, uuid_clock,
                    code_blocks_to_execute, rsp, msg_type, bound,
                    kernel_on_server, exc, outcome >>

\* Delete as it would be if the kernel were deleted only after a loop that
\* ran to completion: after an abort main returns without the call.
Delete_NotAfterAbort ==
    /\ pc = "delete"
    /\ IF exc # ""
       THEN /\ pc' = "done"
            /\ outcome' = "returned"
            /\ UNCHANGED << kernel_on_server, trace >>
       ELSE /\ trace' = Append(trace, "DELETE")
            /\ kernel_on_server' = FALSE
            /\ pc' = "done"
            /\ outcome' = "returned"
    /\ UNCHANGED << invocations, ok_replies >>
    /\ UNCHANGED << token_set, args, kernel, file, code, ws, sent, uuid_clock,
                    code_blocks_to_execute, rsp, msg_type, bound, exc >>

\* Lines 150-153: DELETE /api/kernels/{id}.  The server deletes the kernel,
\* or answers with an error status (the response is not inspected), or the
\* call raises.  After the call main returns and the process exits with 0.
Delete ==
    /\ pc = "delete"
    /\ trace' = Append(trace, "DELETE")
    /\ \/ /\ kernel_on_server' = FALSE
          /\ pc' = "done"
          /\ outcome' = "returned"
       \/ /\ pc' = "done"
          /\ outcome' = "returned"
          /\ UNCHANGED kernel_on_server
       \/ /\ Uncaught
          /\ UNCHANGED kernel_on_server
    /\ UNCHANGED << invocations, ok_replies >>
    /\ UNCHANGED << token_set, args, kernel, file, code, ws, sent, uuid_clock,
                    code_blocks_to_execute, rsp, msg_type, bound, exc >>

Next ==
    \/ ModuleImport
    \/ parse_args
    \/ BuildHeaders
    \/ CreateKernel
    \/ FetchNotebook
    \/ Extract
    \/ OpenChannel
    \/ Send
    \/ SetCount
    \/ LoopExit
    \/ Recv
    \/ Handle
    \/ Close
    \/ Delete

Spec == Init /\ [][Next]_vars

(***************************************************************************)
(* Vocabulary of the properties, stated without the program's operators.   *)
(***************************************************************************)
\* A cell that is to be executed: a code cell whose source is not empty.
Eligible(c) == c.cell_type = "code" /\ c.source # <<>>

\* Positions of the eligible cells of the fetched notebook ({} before the
\* notebook is there).
EligibleIdx ==
    IF "content" \in DOMAIN file
    THEN {i \in DOMAIN file.content.cells : Eligible(file.content.cells[i])}
    ELSE {}

\* The position of the k-th eligible cell in document order.
NthEligible(k) ==
    CHOOSE i \in EligibleIdx : Cardinality({j \in EligibleIdx : j < i}) = k - 1

NumSends == Count(trace, "send")
NumRecvs == Count(trace, "recv")
NumDeletes == Count(trace, "DELETE")
NumCloses == Count(trace, "close")

\* Control has left the receive loop through its condition or a break.
LoopLeft == pc = "close" \/ NumCloses > 0

\* The last message received is a reply of type error.
ErrorReceived ==
    /\ "msg_type" \in DOMAIN rsp
    /\ rsp.msg_type = "error"

\* The last receive failed, or what it delivered is not a structured reply.
ReceiveFailed ==
    \/ exc \in RecvFailures
    \/ exc = "KeyError" /\ "msg_type" \notin DOMAIN rsp

C2_ReleasedOnEveryExit ==
    (pc = "done" /\ "id" \in DOMAIN kernel) => ws # "open" /\ NumDeletes >= 1

(***************************************************************************)
(* C3: the pending count is bound to the number of eligible cells, is      *)
(* never negative, and afterwards changes only by a decrement of one, in   *)
(* the step that handles a received execute_reply whose metadata has       *)
(* status ok and dependencies_met true.                                    *)
(***************************************************************************)
C3_PendingCount ==
    /\ [](code_blocks_to_execute >= 0)
    /\ [][ /\ "code_blocks_to_execute" \notin bound'
                => code_blocks_to_execute' = code_blocks_to_execute
           /\ ( /\ "code_blocks_to_execute" \notin bound
                /\ "code_blocks_to_execute" \in bound' )
                => code_blocks_to_execute' = Cardinality(EligibleIdx)
           /\ ( /\ "code_blocks_to_execute" \in bound
                /\ code_blocks_to_execute' # code_blocks_to_execute )
                => /\ code_blocks_to_execute' = code_blocks_to_execute - 1
                   /\ pc = "handle"
                   /\ Qualifies(rsp) ]_vars

\* Two of three pending cells have been counted as complete.
C3_Witness ==
    /\ "code_blocks_to_execute" \in bound
    /\ Cardinality(EligibleIdx) = 3
    /\ code_blocks_to_execute = 1
    /\ Qualifies(rsp)

(***************************************************************************)
(* C4: the requests sent are, in order, the sources of the eligible cells  *)
(* in document order: never more than N are sent, the i-th carries the     *)
(* source of the i-th eligible cell, all N have been sent when the loop is *)
(* entered and before anything is received, and no send follows a receive. *)
(***************************************************************************)
C4_SendsInOrderBeforeReceive ==
    /\ [](/\ Len(sent) <= Cardinality(EligibleIdx)
          /\ NumSends <= Cardinality(EligibleIdx)
          /\ \A i \in 1..Len(sent) :
                sent[i].content.code
                    = file.content.cells[NthEligible(i)].source
          /\ ("code_blocks_to_execute" \in bound \/ NumRecvs > 0)
                => /\ Len(sent) = Cardinality(EligibleIdx)
                   /\ NumSends = Len(sent))
    /\ [][ NumRecvs' > 0 => sent' = sent /\ NumSends' = NumSends ]_vars

\* A run that sent two different sources around an excluded cell and then
\* received.
C4_Witness ==
    /\ Len(sent) = 2
    /\ sent[1].content.code = <<1>>
    /\ sent[2].content.code = <<3>>
    /\ Len(file.content.cells) = 3
    /\ ~Eligible(file.content.cells[2])
    /\ NumRecvs > 0

(***************************************************************************)
(* C5: once a reply of type error has been received, control is out of the *)
(* loop for good: no further receive happens, the pending count keeps the  *)
(* value it had when the error arrived, and the run goes on to close the   *)
(* channel.                                                                *)
(***************************************************************************)
C5_ErrorReplyHaltsLoop ==
    /\ [](ErrorReceived =>
            /\ pc \in {"close", "delete", "done"}
            /\ exc # ""
            /\ pc = "close" => ENABLED Close
            /\ pc # "close" => ws = "closed")
    /\ [][ ErrorReceived' =>
             /\ code_blocks_to_execute' = code_blocks_to_execute
             /\ ErrorReceived => NumRecvs' = NumRecvs ]_vars

\* An error reply arrived with two of three cells pending and the channel
\* has been closed.
C5_Witness ==
    /\ ErrorReceived
    /\ Cardinality(EligibleIdx) = 3
    /\ code_blocks_to_execute = 2
    /\ ws = "closed"

(***************************************************************************)
(* C6: when a receive fails or what it delivers is not a structured reply, *)
(* control leaves the loop at once: no further receive happens, the        *)
(* pending count is unchanged, and the close and the delete call follow.   *)
(***************************************************************************)
C6_ReceiveFailureAborts ==
    /\ [](ReceiveFailed =>
            /\ pc \in {"close", "delete", "done"}
            /\ pc = "close" => ENABLED Close
            /\ pc = "delete" => ENABLED Delete
            /\ pc = "done" => NumDeletes = 1)
    /\ [][ ReceiveFailed' =>
             /\ code_blocks_to_execute' = code_blocks_to_execute
             /\ ReceiveFailed => NumRecvs' = NumRecvs ]_vars

\* A receive raised after one cell was counted; the run has ended with the
\* delete call issued.
C6_Witness ==
    /\ exc = "WebSocketException"
    /\ NumRecvs = 2
    /\ code_blocks_to_execute = 1
    /\ pc = "done"
    /\ NumDeletes = 1

(***************************************************************************)
(* C7: with no eligible cell in the notebook nothing is sent and nothing   *)
(* is received, and after the channel is opened the only calls are the     *)
(* close and the kernel delete.                                            *)
(***************************************************************************)
C7_NoCellsNoTraffic ==
    ("code" \in bound /\ EligibleIdx = {}) =>
        /\ sent = <<>>
        /\ NumSends = 0
        /\ NumRecvs = 0
        /\ pc \notin {"handle"}
        /\ pc = "loop" => ENABLED LoopExit /\ ~ENABLED Recv
        /\ (pc = "done" /\ ws # "none")
              => trace = << "POST", "GET", "connect", "close", "DELETE" >>

\* A notebook of two cells, neither eligible: the run has ended normally
\* after the close and the delete.
C7_Witness ==
    /\ "code" \in bound
    /\ Len(file.content.cells) = 2
    /\ EligibleIdx = {}
    /\ pc = "done"
    /\ outcome = "returned"
    /\ trace = << "POST", "GET", "connect", "close", "DELETE" >>

(***************************************************************************)
(* C8: all requests of a run carry one session identifier, and no two      *)
(* requests carry the same request identifier.                             *)
(***************************************************************************)
C8_OneSessionFreshIds ==
    \A i, j \in 1..Len(sent) :
        /\ sent[i].header.session = sent[j].header.session
        /\ i # j => sent[i].header.msg_id # sent[j].header.msg_id

(***************************************************************************)
(* C9: the extracted list is exactly the sources of the eligible cells     *)
(* (code cells with a non-empty source), in document order.                *)
(***************************************************************************)
C9_ExtractorExact ==
    "code" \in bound =>
        /\ Len(code) = Cardinality(EligibleIdx)
        /\ \A k \in 1..Len(code) :
              code[k] = file.content.cells[NthEligible(k)].source

\* A three-cell notebook: a markdown cell, an empty code cell, a code cell.
C9_Witness ==
    /\ "code" \in bound
    /\ file.content.cells = << [cell_type |-> "markdown", source |-> <<1>>],
                               [cell_type |-> "code", source |-> <<>>],
                               [cell_type |-> "code", source |-> <<3>>] >>
    /\ code = << <<3>> >>

(***************************************************************************)
(* C10: without JUPYTER_TOKEN the program ends with the configuration      *)
(* error of the module load, and no network call is ever attempted.        *)
(***************************************************************************)
C10_NoTokenNoNetwork ==
    ~token_set =>
        /\ trace = <<>>
        /\ ws = "none"
        /\ ~kernel_on_server
        /\ pc \in {"import", "done"}
        /\ pc = "done" => outcome = "config_error"

\* The run without the token has ended with the configuration error.
C10_Witness ==
    /\ ~token_set
    /\ pc = "done"
    /\ outcome = "config_error"

(***************************************************************************)
(* C11: when the address or the path is missing after argument parsing,    *)
(* the process exits with status 1 from parse_args and makes no network    *)
(* call: main goes on, and the network is used, only with both present.    *)
(***************************************************************************)
C11_MissingArgsExit ==
    /\ outcome = "exit_1" => pc = "done" /\ trace = <<>> /\ ws = "none"
    /\ "args" \in bound => /\ args.jupyter_server # None
                           /\ args.jupyter_notebook # None
    /\ trace # <<>> => "args" \in bound
    /\ pc = "parse_args" =>
          ENABLED (parse_args /\ outcome' = "exit_1" /\ pc' = "done")

\* The run with the token set has ended with the exit of parse_args.
C11_Witness ==
    /\ token_set
    /\ pc = "done"
    /\ outcome = "exit_1"
    /\ "args" \notin bound

(***************************************************************************)
(* C12: whatever the outcome of the kernel delete call, the run ends as a  *)
(* normal completion.                                                      *)
(***************************************************************************)
C12_DeleteFailureNotFatal ==
    (pc = "done" /\ NumDeletes = 1) => outcome = "returned"

(***************************************************************************)
(* C13: no network operation is made twice in a run: at most one kernel    *)
(* create, one notebook fetch, one channel open and one kernel delete, and *)
(* at most one send for each code cell.                                    *)
(***************************************************************************)
C13_NoRetry ==
    /\ Count(trace, "POST") <= 1
    /\ Count(trace, "GET") <= 1
    /\ Count(trace, "connect") <= 1
    /\ NumDeletes <= 1
    /\ NumSends <= Len(code)
    /\ NumSends \in {Len(sent), Len(sent) + 1}
    /\ NumSends = Len(sent) + 1 => pc = "done" /\ outcome = "exception"
    /\ \A i, j \in 1..Len(sent) :
          sent[i].content.code = sent[j].content.code => i = j
    /\ (pc = "done" /\ outcome = "exception") => ~ENABLED Next

\* A run that failed in the notebook fetch has ended after one create and
\* one fetch.
C13_Witness ==
    /\ pc = "done"
    /\ outcome = "exception"
    /\ trace = << "POST", "GET" >>

(***************************************************************************)
(* C15: a received reply that is neither an error nor a qualifying         *)
(* execute_reply leaves the pending count unchanged, and the loop goes on  *)
(* to its next iteration: handling it never ends the loop or the run.      *)
(***************************************************************************)
C15_OtherRepliesIgnored ==
    [][ (pc = "handle" /\ ~Qualifies(rsp)) =>
            /\ code_blocks_to_execute' = code_blocks_to_execute
            /\ pc' = "loop"
            /\ outcome' = "" ]_vars

(***************************************************************************)
(* C16: once the loop has been entered and is no longer running, the       *)
(* pending count is 0 or the loop was aborted; the channel is then closed  *)
(* exactly once, after the last receive and before the delete call, and    *)
(* nothing is sent or received after the close.                            *)
(***************************************************************************)
C16_LoopExitAndClose ==
    /\ NumCloses <= 1
    /\ \A i \in 1..Len(trace) :
          trace[i] = "close" =>
              \A j \in 1..Len(trace) :
                  /\ trace[j] \in {"send", "recv"} => j < i
                  /\ trace[j] = "DELETE" => i < j
    /\ ("code_blocks_to_execute" \in bound /\ pc \notin {"loop", "handle"})
          => /\ code_blocks_to_execute = 0 \/ exc # ""
             /\ pc \in {"delete", "done"} => NumCloses = 1 /\ ws = "closed"

(***************************************************************************)
(* C17: a run that was delivered N qualifying replies for its N > 0 cells, *)
(* with no abort, ends with the pending count at 0 and the delete call     *)
(* issued; and as long as fewer than N were delivered and nothing aborted  *)
(* the loop, the loop is still running (nothing else ends it).             *)
(***************************************************************************)
C17_EndsOnlyOnNReplies ==
    /\ ( /\ "code_blocks_to_execute" \in bound
         /\ Cardinality(EligibleIdx) > 0
         /\ ok_replies = Cardinality(EligibleIdx)
         /\ exc = ""
         /\ pc = "done" )
          => code_blocks_to_execute = 0 /\ NumDeletes = 1
    /\ ( /\ "code_blocks_to_execute" \in bound
         /\ ok_replies < Cardinality(EligibleIdx)
         /\ exc = "" )
          => pc \in {"loop", "handle"}
    /\ (pc = "loop" /\ code_blocks_to_execute = 0) => ENABLED LoopExit

(***************************************************************************)
(* C18: the calls of a run are made in the order create kernel, fetch      *)
(* notebook, open channel, sends, receives, close, delete, each after the  *)
(* one before it; the code list is extracted between the fetch and the     *)
(* open; every send precedes every receive; the delete follows the close.  *)
(***************************************************************************)
Follows(a, b) ==
    << a, b >> \in { << "POST", "GET" >>, << "GET", "connect" >>,
                     << "connect", "send" >>, << "connect", "close" >>,
                     << "send", "send" >>, << "send", "recv" >>,
                     << "recv", "recv" >>, << "recv", "close" >>,
                     << "close", "DELETE" >> }

C18_StepOrder ==
    /\ trace # <<>> => trace[1] = "POST"
    /\ \A i \in 1..(Len(trace) - 1) : Follows(trace[i], trace[i + 1])
    /\ "file" \in bound => Count(trace, "GET") = 1
    /\ "code" \in bound => "file" \in bound /\ "kernel" \in bound
    /\ Count(trace, "connect") > 0 => "code" \in bound
    /\ NumRecvs > 0 => NumSends = Len(code)
    /\ NumDeletes > 0 => pc = "done" /\ LoopLeft

\* A complete run over two cells: all seven kinds of step, in order.
C18_Witness ==
    /\ pc = "done"
    /\ trace = << "POST", "GET", "connect", "send", "send",
                  "recv", "recv", "close", "DELETE" >>

(***************************************************************************)
(* C19: replies are counted, not matched: when the loop ends through its   *)
(* condition exactly N qualifying replies have been received, whatever     *)
(* request they name, never more than N are received, and nothing is       *)
(* received after the N-th.                                                *)
(***************************************************************************)
C19_CountedNotMatched ==
    /\ []("code_blocks_to_execute" \in bound =>
            /\ ok_replies <= Cardinality(EligibleIdx)
            /\ (LoopLeft /\ exc = "")
                  => ok_replies = Cardinality(EligibleIdx))
    /\ [][ ( /\ "code_blocks_to_execute" \in bound
             /\ ok_replies = Cardinality(EligibleIdx) )
            => NumRecvs' = NumRecvs ]_vars

\* The one request of the run was completed by a reply that names another
\* request.
C19_Witness ==
    /\ LoopLeft
    /\ exc = ""
    /\ Len(sent) = 1
    /\ ok_replies = 1
    /\ "parent_header" \in DOMAIN rsp
    /\ rsp.parent_header.msg_id # sent[1].header.msg_id

(***************************************************************************)
(* C20: a run whose loop was aborted ends like a successful run: with the  *)
(* channel closed, the delete call issued and main returning normally.     *)
(***************************************************************************)
C20_AbortEndsLikeSuccess ==
    (pc = "done" /\ LoopLeft /\ exc # "")
        => ws = "closed" /\ NumDeletes = 1 /\ outcome = "returned"

(***************************************************************************)
(* Argument parsing (lines 21-63), as functions of the invocation.         *)
(* Strings are sequences of code points, byte strings sequences of bytes,  *)
(* base64 text a sequence of the 6-bit values of its characters with 64    *)
(* standing for the padding character "=".                                 *)
(***************************************************************************)
\* None where a string is expected.
NoString == << -1 >>

\* main(None, None): there is no event.
NoEvent == [none |-> TRUE]

OptVerbose == << 45, 45, 118, 101, 114, 98, 111, 115, 101 >>
OptUseHttps == << 45, 45, 117, 115, 101, 45, 104, 116, 116, 112, 115 >>

\* The characters str.split() treats as separators (those below 256).
Whitespace == { 9, 10, 11, 12, 13, 28, 29, 30, 31, 32, 133, 160 }

\* base64.b64decode of correctly padded text, from the i-th character on.
RECURSIVE B64DecodeFrom(_, _)
B64DecodeFrom(t, i) ==
    IF i + 3 > Len(t) THEN <<>>
    ELSE LET n == t[i] * 262144 + t[i + 1] * 4096
                  + (IF t[i + 2] = 64 THEN 0 ELSE t[i + 2] * 64)
                  + (IF t[i + 3] = 64 THEN 0 ELSE t[i + 3])
             three == << n \div 65536, (n \div 256) % 256, n % 256 >>
         IN  (IF t[i + 2] = 64 THEN SubSeq(three, 1, 1)
              ELSE IF t[i + 3] = 64 THEN SubSeq(three, 1, 2)
              ELSE three) \o B64DecodeFrom(t, i + 4)

B64Decode(t) == B64DecodeFrom(t, 1)

\* bytes.decode('utf-8') of well-formed one- and two-byte sequences, from
\* the i-th byte on.
RECURSIVE Utf8DecodeFrom(_, _)
Utf8DecodeFrom(b, i) ==
    IF i > Len(b) THEN <<>>
    ELSE IF b[i] < 128 THEN << b[i] >> \o Utf8DecodeFrom(b, i + 1)
    ELSE << (b[i] - 192) * 64 + (b[i + 1] - 128) >> \o Utf8DecodeFrom(b, i + 2)

Utf8Decode(b) == Utf8DecodeFrom(b, 1)

\* Split as it would be with data.split(" "): only the space separates, and
\* empty strings are kept.
RECURSIVE SplitOnSpaceFrom(_, _, _)
SplitOnSpaceFrom(str, i, word) ==
    IF i > Len(str) THEN << word >>
    ELSE IF str[i] = 32
         THEN << word >> \o SplitOnSpaceFrom(str, i + 1, <<>>)
         ELSE SplitOnSpaceFrom(str, i + 1, Append(word, str[i]))

Split_OnSpace(str) == SplitOnSpaceFrom(str, 1, <<>>)

\* data.split(): the maximal runs of characters that are not whitespace;
\* word is the run being read at the i-th character.
RECURSIVE SplitFrom(_, _, _)
SplitFrom(str, i, word) ==
    IF i > Len(str) THEN (IF word = <<>> THEN <<>> ELSE << word >>)
    ELSE IF str[i] \in Whitespace
         THEN (IF word = <<>> THEN <<>> ELSE << word >>)
              \o SplitFrom(str, i + 1, <<>>)
         ELSE SplitFrom(str, i + 1, Append(word, str[i]))

Split(str) == SplitFrom(str, 1, <<>>)

\* parser.parse_args(tokens) with the two optional positionals and the two
\* flags of lines 26-46: ns is the namespace so far, n the number of
\* positionals seen.  A third positional or an unknown option is an error
\* (exit status 2).
RECURSIVE ArgParseFrom(_, _, _, _)
ArgParseFrom(tokens, i, ns, n) ==
    IF i > Len(tokens) THEN [status |-> "ok", args |-> ns]
    ELSE LET t == tokens[i] IN
         IF t = OptVerbose
         THEN ArgParseFrom(tokens, i + 1, [ns EXCEPT !.verbose = TRUE], n)
         ELSE IF t = OptUseHttps
         THEN ArgParseFrom(tokens, i + 1, [ns EXCEPT !.use_https = TRUE], n)
         ELSE IF Len(t) > 1 /\ t[1] = 45 THEN [status |-> "exit_2"]
         ELSE IF n = 0
         THEN ArgParseFrom(tokens, i + 1, [ns EXCEPT !.jupyter_server = t], 1)
         ELSE IF n = 1
         THEN ArgParseFrom(tokens, i + 1, [ns EXCEPT !.jupyter_notebook = t], 2)
         ELSE [status |-> "exit_2"]

\* Lines 23-46: the defaults of the parser, from the environment.
Defaults(env) ==
    [ jupyter_server |-> env.JUPYTER_SERVER,
      jupyter_notebook |-> env.JUPYTER_NOTEBOOK,
      use_https |-> FALSE,
      verbose |-> FALSE ]

\* parse_args(event) in a process whose command line is argv and whose
\* environment is env: the configuration, or the exit status.
parse_args_result(event, argv, env) ==
    LET tokens == IF event # NoEvent /\ "data" \in DOMAIN event
                  THEN Split(Utf8Decode(B64Decode(event["data"])))
                  ELSE argv
        parsed == ArgParseFrom(tokens, 1, Defaults(env), 0)
    IN  IF parsed.status # "ok" THEN parsed
        ELSE IF \/ parsed.args.jupyter_server = NoString
                \/ parsed.args.jupyter_notebook = NoString
             THEN [status |-> "exit_1"]
             ELSE parsed

(***************************************************************************)
(* The two ways of invoking the program with the same arguments: as a      *)
(* command (line 157, parse_args reads sys.argv) and with an event whose   *)
(* "data" is the base64 text of the arguments joined by spaces.            *)
(***************************************************************************)
Arguments ==
    { << 104 >>,                 \* "h"
      << 47, 233 >>,             \* "/" followed by U+00E9
      << 47, 97, 32, 98 >>,      \* "/a b"
      << 47, 160, 98 >>,         \* "/", U+00A0 (no-break space), "b"
      OptVerbose,
      OptUseHttps,
      <<>> }                     \* ""

ArgLists == UNION { [1..n -> Arguments] : n \in 0..MaxArgs }

Environments ==
    [ JUPYTER_SERVER : { NoString, << 115 >> },
      JUPYTER_NOTEBOOK : { NoString, << 47, 101 >> } ]

NotRun == [status |-> "not_run"]

\* The arguments joined by single spaces.
RECURSIVE Join(_)
Join(argv) ==
    IF argv = <<>> THEN <<>>
    ELSE IF Len(argv) = 1 THEN argv[1]
    ELSE argv[1] \o << 32 >> \o Join(Tail(argv))

\* str.encode('utf-8') for code points below 2048.
RECURSIVE Utf8Encode(_)
Utf8Encode(str) ==
    IF str = <<>> THEN <<>>
    ELSE (IF str[1] < 128 THEN << str[1] >>
          ELSE << 192 + (str[1] \div 64), 128 + (str[1] % 64) >>)
         \o Utf8Encode(Tail(str))

\* base64.b64encode.
RECURSIVE B64Encode(_)
B64Encode(b) ==
    IF b = <<>> THEN <<>>
    ELSE LET n == b[1] * 65536 + (IF Len(b) > 1 THEN b[2] * 256 ELSE 0)
                  + (IF Len(b) > 2 THEN b[3] ELSE 0)
         IN  << n \div 262144, (n \div 4096) % 64,
                IF Len(b) > 1 THEN (n \div 64) % 64 ELSE 64,
                IF Len(b) > 2 THEN n % 64 ELSE 64 >>
             \o (IF Len(b) > 3 THEN B64Encode(SubSeq(b, 4, Len(b))) ELSE <<>>)

EventFor(argv) == [data |-> B64Encode(Utf8Encode(Join(argv)))]

ArgsInit ==
    /\ pc = "parse_args"
    /\ token_set = TRUE
    /\ args = Unbound
    /\ kernel = Unbound
    /\ file = Unbound
    /\ code = <<>>
    /\ ws = "none"
    /\ sent = <<>>
    /\ uuid_clock = 0
    /\ code_blocks_to_execute = 0
    /\ rsp = Unbound
    /\ msg_type = None
    /\ bound = {}
    /\ kernel_on_server = FALSE
    /\ exc = ""
    /\ trace = <<>>
    /\ ok_replies = 0
    /\ \E argv \in ArgLists, env \in Environments :
           invocations = [ argv |-> argv, env |-> env,
                           command_line |-> NotRun, event |-> NotRun ]
    /\ outcome = ""

\* main(None, None) in a process started with the arguments on its command
\* line.
ParseCommandLine ==
    /\ invocations.command_line = NotRun
    /\ invocations' =
           [invocations EXCEPT !.command_line =
               parse_args_result(NoEvent, invocations.argv, invocations.env)]
    /\ UNCHANGED << pc, token_set, args, kernel, file, code, ws, sent,
                    uuid_clock, code_blocks_to_execute, rsp, msg_type, bound,
                    kernel_on_server, exc, trace, ok_replies, outcome >>

\* main(event, context) with the arguments in the event; the process itself
\* has no command-line arguments.
ParseEvent ==
    /\ invocations.event = NotRun
    /\ invocations' =
           [invocations EXCEPT !.event =
               parse_args_result(EventFor(invocations.argv), <<>>,
                                 invocations.env)]
    /\ UNCHANGED << pc, token_set, args, kernel, file, code, ws, sent,
                    uuid_clock, code_blocks_to_execute, rsp, msg_type, bound,
                    kernel_on_server, exc, trace, ok_replies, outcome >>

ArgsNext == ParseCommandLine \/ ParseEvent

ArgsSpec == ArgsInit /\ [][ArgsNext]_vars

BothParsed ==
    /\ invocations.command_line # NotRun
    /\ invocations.event # NotRun

\* No argument is empty or contains a whitespace character.
PlainArguments ==
    \A i \in 1..Len(invocations.argv) :
        /\ invocations.argv[i] # <<>>
        /\ \A k \in 1..Len(invocations.argv[i]) :
               invocations.argv[i][k] \notin Whitespace

\* C14 (as the code has it): for every argument sequence in which no
\* argument is empty or contains whitespace, the invocation with an event
\* yields the same configuration, or the same exit, as the invocation from
\* the command line.
C14_EventMatchesCommandLine ==
    (BothParsed /\ PlainArguments)
        => invocations.event = invocations.command_line

\* C14 as stated: the same for every argument sequence, arguments that
\* contain whitespace included.
C14_AnyArguments ==
    BothParsed => invocations.event = invocations.command_line

C14_Witness ==
    /\ BothParsed
    /\ invocations.argv = << << 104 >>, << 47, 233 >>, OptVerbose >>
    /\ invocations.event.status = "ok"
    /\ invocations.event.args.jupyter_notebook = << 47, 233 >>
    /\ invocations.event.args.verbose

====
